---------------------------- MODULE Spec2Model ----------------------------
(***************************************************************************)
(* Buffer pool core of BusTub: the extendible hash table                   *)
(* (src/container/hash/extendible_hash_table.cpp), the LRU-K replacer      *)
(* (src/buffer/lru_k_replacer.cpp) and the buffer pool manager instance    *)
(* (src/buffer/buffer_pool_manager_instance.cpp).                          *)
(*                                                                         *)
(* The three classes are modelled as values (records) with one operator    *)
(* per method.  The specifications that drive them:                        *)
(*   SpecHT   the hash table alone (Insert / Remove / Find),               *)
(*   SpecS4   the hash table of scenario S4 (three inserts),               *)
(*   SpecInsert   the hash table with Insert running in steps and the      *)
(*            widths of int and size_t kept,                               *)
(*   SpecLRU  the replacer alone (RecordAccess / SetEvictable / Remove /   *)
(*            Evict),                                                      *)
(*   SpecCapped   the replacer next to one with capped histories,          *)
(*   SpecThreads  the replacer shared by the threads of ConcurrentAccess,  *)
(*   Spec     the buffer pool manager, which owns one hash table (the      *)
(*            page table) and one replacer,                                *)
(*   SpecDirty, SpecUnpin   Spec with an observer of its calls,            *)
(*   SpecFlushAll   Spec with FlushAllPages running in steps.              *)
(* Every public method holds the object's mutex for its whole body, so     *)
(* one method call is one atomic action; FlushAllPages, which locks the    *)
(* manager's mutex twice, is modelled in steps.                            *)
(***************************************************************************)
EXTENDS Integers, Sequences, FiniteSets, TLC

VARIABLES
    (* ---- hash table alone (SpecHT) ---- *)
    ht,          \* the ExtendibleHashTable<int,int> object
    ht_map,      \* the finite map the calls so far describe (key -> value)
    ht_call,     \* the last call on ht and what it returned
    (* ---- replacer alone (SpecLRU) ---- *)
    lru,         \* the LRUKReplacer object
    lru_call,    \* the last call on lru and what it returned
    (* ---- buffer pool manager (Spec) ---- *)
    pages_,        \* frame -> [page_id_, pin_count_, is_dirty_]
    free_list_,    \* std::list<frame_id_t>, front first
    page_table_,   \* the ExtendibleHashTable<page_id_t, frame_id_t> object
    replacer_,     \* the LRUKReplacer object
    next_page_id_, \* AllocatePage's counter
    bpm_call,      \* the last call on the manager, its result and its trace
    dirty_mon,     \* observer of UnpinPage(p, true) / FlushPage(p) per frame
    unpin_mon,     \* observer of the fetch / unpin / unpin pattern per page id
    latch_,        \* std::mutex latch_ of the manager: "free" or its holder
    flush_all,     \* where the thread running FlushAllPages is
    (* ---- replacer shared by threads (SpecThreads) ---- *)
    threads,       \* per thread of the ConcurrentAccess test: its loop variable i
    (* ---- replacer with capped histories (SpecCapped) ---- *)
    lru_k,         \* a replacer that keeps the k_ most recent timestamps per frame
    (* ---- Insert of the hash table, statement by statement (SpecInsert) ---- *)
    inserting      \* where the thread inside ExtendibleHashTable::Insert is

vars == << ht, ht_map, ht_call, lru, lru_call, pages_, free_list_, page_table_,
           replacer_, next_page_id_, bpm_call, dirty_mon, unpin_mon, latch_,
           flush_all, threads, lru_k, inserting >>

htVars  == << ht, ht_map, ht_call >>
lruVars == << lru, lru_call >>
bpmVars == << pages_, free_list_, page_table_, replacer_, next_page_id_,
              bpm_call >>
monVars == << dirty_mon, unpin_mon >>
flushVars  == << latch_, flush_all >>
threadVars == << threads >>
cappedVars == << lru_k >>
insertVars == << inserting >>

(***************************************************************************)
(* Bounds of the model.                                                    *)
(***************************************************************************)
MaxKey        == 3   \* SpecHT: keys are -1 .. MaxKey
MaxBucketSize == 2   \* SpecHT: bucket_size is 1 .. MaxBucketSize
NumFrames     == 3   \* SpecLRU: num_frames of the replacer
MaxK          == 2   \* SpecLRU / Spec: k is 1 .. MaxK
MaxTimestamp  == 4   \* SpecLRU: RecordAccess is called while current_timestamp_ < MaxTimestamp
PoolSize      == 2   \* Spec: pool_size
MaxAccess     == 4   \* Spec: NewPage / FetchPage are called while current_timestamp_ < MaxAccess
PageTableBucketSize == 1  \* Spec: bucket_size_ of the page table
MaxS4Key      == 8   \* SpecS4: keys are 0 .. MaxS4Key
IntBits       == 3   \* SpecInsert: bits of an int (32 in the build)
HashBits      == 6   \* SpecInsert: bits of a size_t (64 in the build)
MaxInserts    == 3   \* SpecInsert: Insert is called while the table would hold at most MaxInserts keys
MaxDirBits    == 4   \* SpecInsert: memory holds a dir_ of at most 2^MaxDirBits entries
ThreadFrames  == 8   \* SpecThreads: num_frames of the shared replacer (the test uses 100)
MaxFlushAllAccess == 3  \* SpecFlushAll: calls are made while current_timestamp_ < MaxFlushAllAccess

(***************************************************************************)
(* Program constants.                                                      *)
(***************************************************************************)
INVALID_PAGE_ID  == -1
INVALID_FRAME_ID == -1
\* std::numeric_limits<size_t>::max(); TLC's integers are 32 bits wide and
\* only the order of this value against timestamps and distances matters.
SIZE_MAX == 2147483647

NoValue == -2   \* "value" left untouched by a Find that returns false

(***************************************************************************)
(*                         ExtendibleHashTable                             *)
(*                                                                         *)
(* dir_ is a sequence of bucket handles (index i of the code is dir[i+1]); *)
(* a handle is the position of the bucket in `buckets`, so two directory   *)
(* entries share a bucket exactly when they hold the same handle.          *)
(***************************************************************************)
Pow2(n) == 2 ^ n

\* ExtendibleHashTable(bucket_size)
NewHashTable(bucket_size) ==
    [ global_depth_ |-> 0,
      bucket_size_  |-> bucket_size,
      num_buckets_  |-> 1,
      dir_          |-> << 1 >>,
      buckets       |-> << [depth_ |-> 0, list_ |-> << >>] >> ]

\* std::hash<int>()(key) & ((1 << global_depth_) - 1): the low global_depth_
\* bits of the two's complement of key (-1 has every bit set), for the
\* depths at which the mask fits an int; IndexOfInt keeps the int's width.
IndexOf(t, key) == key % Pow2(t.global_depth_)

\* Bucket::Find: the first pair with an equal key
BucketFind(list, key) ==
    IF \E i \in 1..Len(list) : list[i][1] = key
    THEN LET i == CHOOSE i \in 1..Len(list) :
                     /\ list[i][1] = key
                     /\ \A j \in 1..(i-1) : list[j][1] # key
         IN  [found |-> TRUE, value |-> list[i][2]]
    ELSE [found |-> FALSE, value |-> NoValue]

\* Bucket::Remove: erases every pair with an equal key
BucketRemove(list, key) ==
    [ removed |-> \E i \in 1..Len(list) : list[i][1] = key,
      list_   |-> SelectSeq(list, LAMBDA p : p[1] # key) ]

BucketInsertKeepsOldValue(list, size, key, value) ==
    IF \E i \in 1..Len(list) : list[i][1] = key
    THEN [ok |-> TRUE, list_ |-> list]
    ELSE IF Len(list) = size
         THEN [ok |-> FALSE, list_ |-> list]
         ELSE [ok |-> TRUE, list_ |-> Append(list, << key, value >>)]

\* Bucket::Insert: overwrite an equal key, refuse when full, else append
BucketInsert(list, size, key, value) ==
    IF \E i \in 1..Len(list) : list[i][1] = key
    THEN LET i == CHOOSE i \in 1..Len(list) :
                     /\ list[i][1] = key
                     /\ \A j \in 1..(i-1) : list[j][1] # key
         IN  [ok |-> TRUE, list_ |-> [list EXCEPT ![i] = << key, value >>]]
    ELSE IF Len(list) = size
         THEN [ok |-> FALSE, list_ |-> list]
         ELSE [ok |-> TRUE, list_ |-> Append(list, << key, value >>)]

\* ExtendibleHashTable::Find
HTFind(t, key) ==
    LET key_index == IndexOf(t, key)
    IN  IF key_index >= Len(t.dir_)
        THEN [found |-> FALSE, value |-> NoValue]
        ELSE BucketFind(t.buckets[t.dir_[key_index + 1]].list_, key)

\* ExtendibleHashTable::Remove
HTRemove(t, key) ==
    LET key_index == IndexOf(t, key)
    IN  IF key_index >= Len(t.dir_)
        THEN [removed |-> FALSE, table |-> t]
        ELSE LET b == t.dir_[key_index + 1]
                 r == BucketRemove(t.buckets[b].list_, key)
             IN  [ removed |-> r.removed,
                   table   |-> [t EXCEPT !.buckets[b].list_ = r.list_] ]

RedistributeDropsItems(t, items) == t

\* the loop of lines 144-147: re-insert the items of the split bucket
RECURSIVE Redistribute(_, _)
Redistribute(t, items) ==
    IF items = << >>
    THEN t
    ELSE LET pair      == Head(items)
             new_index == IndexOf(t, pair[1])
             b         == t.dir_[new_index + 1]
             r         == BucketInsert(t.buckets[b].list_, t.bucket_size_,
                                       pair[1], pair[2])
         IN  Redistribute([t EXCEPT !.buckets[b].list_ = r.list_], Tail(items))

SplitBitBadFixedOffset(i, new_local_depth) == i >= Pow2(new_local_depth - 1)

\* (i & mask) with mask = 1 << (new_local_depth - 1)
SplitBit(i, new_local_depth) == (i \div Pow2(new_local_depth - 1)) % 2 = 1

\* one pass of the split (lines 113-147) on the bucket with handle b
SplitBucket(t, b) ==
    LET bucket_depth == t.buckets[b].depth_
        grown == IF bucket_depth = t.global_depth_
                 THEN [t EXCEPT !.global_depth_ = @ + 1, !.dir_ = @ \o @]
                 ELSE t
        new_local_depth == bucket_depth + 1
        new_bucket == Len(grown.buckets) + 1
        items == grown.buckets[b].list_
        repointed ==
            [ grown EXCEPT
                !.num_buckets_ = @ + 1,
                !.dir_ = [ i \in 1..Len(grown.dir_) |->
                            IF grown.dir_[i] = b /\ SplitBit(i - 1, new_local_depth)
                            THEN new_bucket ELSE grown.dir_[i] ],
                !.buckets = Append(
                    [ @ EXCEPT ![b] = [depth_ |-> new_local_depth, list_ |-> << >>] ],
                    [depth_ |-> new_local_depth, list_ |-> << >>] ) ]
    IN  Redistribute(repointed, items)

\* ExtendibleHashTable::Insert
RECURSIVE HTInsert(_, _, _)
HTInsert(t, key, value) ==
    LET key_index == IndexOf(t, key)
        b == t.dir_[key_index + 1]
        r == BucketInsert(t.buckets[b].list_, t.bucket_size_, key, value)
    IN  IF r.ok
        THEN [t EXCEPT !.buckets[b].list_ = r.list_]
        ELSE HTInsert(SplitBucket(t, b), key, value)

\* the number of key / value pairs stored over all buckets
RECURSIVE HTCount(_, _)
HTCount(t, b) ==
    IF b = 0 THEN 0 ELSE Len(t.buckets[b].list_) + HTCount(t, b - 1)

(***************************************************************************)
(* SpecHT: a hash table driven by Insert, Remove and Find on small keys.   *)
(***************************************************************************)
HTKeys   == -1..MaxKey
HTValues == 0..1

NoHTCall == [op |-> "none", key |-> 0, value |-> NoValue, result |-> FALSE,
             present |-> FALSE]

HTInsertCall(key, value) ==
    /\ ht' = HTInsert(ht, key, value)
    /\ ht_map' = [k \in DOMAIN ht_map \cup {key} |->
                    IF k = key THEN value ELSE ht_map[k]]
    /\ ht_call' = [op |-> "Insert", key |-> key, value |-> value, result |-> TRUE,
                   present |-> key \in DOMAIN ht_map]

HTRemoveCall(key) ==
    LET r == HTRemove(ht, key)
    IN  /\ ht' = r.table
        /\ ht_map' = [k \in DOMAIN ht_map \ {key} |-> ht_map[k]]
        /\ ht_call' = [op |-> "Remove", key |-> key, value |-> NoValue,
                       result |-> r.removed, present |-> key \in DOMAIN ht_map]

HTFindCall(key) ==
    LET r == HTFind(ht, key)
    IN  /\ ht_call' = [op |-> "Find", key |-> key, value |-> r.value,
                       result |-> r.found, present |-> key \in DOMAIN ht_map]
        /\ UNCHANGED << ht, ht_map >>

(***************************************************************************)
(* SpecS4: scenario S4, a table with bucket_size 2 that receives three     *)
(* distinct keys.                                                          *)
(***************************************************************************)
S4Keys == 0..MaxS4Key

S4InsertCall(key) ==
    /\ key \notin DOMAIN ht_map
    /\ Cardinality(DOMAIN ht_map) < 3
    /\ HTInsertCall(key, 0)

(***************************************************************************)
(* SpecInsert: ExtendibleHashTable<int,int>::Insert statement by           *)
(* statement, with the widths of its integers.  IndexOf computes its mask  *)
(* in an int and applies it to the size_t that std::hash returns; the      *)
(* build has a 32-bit int and a 64-bit size_t, the model an int of IntBits *)
(* bits and a size_t of HashBits bits.  Shifting an int by IntBits or more *)
(* is undefined: the build either uses the low bits of the count or        *)
(* yields 0, and which of the two is fixed when the table is built.        *)
(***************************************************************************)
IntKeys == (0 - Pow2(IntBits - 1))..(Pow2(IntBits - 1) - 1)

ShiftOutcomes == {"wraps", "zero"}

InsertIdle == [pc |-> "idle", key |-> 0, value |-> 0, shift |-> "wraps",
               latch_ |-> "free"]

\* a & b on two size_t values
RECURSIVE BitAnd(_, _)
BitAnd(a, b) ==
    IF a = 0 \/ b = 0
    THEN 0
    ELSE (a % 2) * (b % 2) + 2 * BitAnd(a \div 2, b \div 2)

\* the value an int holds after a result x of int arithmetic
ToInt(x) == ((x + Pow2(IntBits - 1)) % Pow2(IntBits)) - Pow2(IntBits - 1)

\* the conversion of an int to size_t, and std::hash<int> of a key
ToSizeT(x) == x % Pow2(HashBits)

\* 1 << n on int
OneShl(n, shift) ==
    IF n < IntBits
    THEN ToInt(Pow2(n))
    ELSE IF shift = "wraps" THEN ToInt(Pow2(n % IntBits)) ELSE 0

\* ExtendibleHashTable::IndexOf.  At global_depth_ = IntBits - 1 the
\* subtraction overflows the int; it wraps, as the processor's does.
IndexOfInt(t, key, shift) ==
    LET mask == ToInt(OneShl(t.global_depth_, shift) - 1)
    IN  BitAnd(ToSizeT(key), ToSizeT(mask))

\* (i & mask) with size_t mask = 1 << (new_local_depth - 1)
SplitBitInt(i, new_local_depth, shift) ==
    BitAnd(i, ToSizeT(OneShl(new_local_depth - 1, shift))) # 0

\* the loop of lines 144-147; dir_[new_index] past the end of dir_ is an
\* access outside the vector, which stops the program
RECURSIVE RedistributeInt(_, _, _)
RedistributeInt(t, items, shift) ==
    IF items = << >>
    THEN [ok |-> TRUE, table |-> t]
    ELSE LET pair      == Head(items)
             new_index == IndexOfInt(t, pair[1], shift)
         IN  IF new_index >= Len(t.dir_)
             THEN [ok |-> FALSE, table |-> t]
             ELSE LET b == t.dir_[new_index + 1]
                      r == BucketInsert(t.buckets[b].list_, t.bucket_size_,
                                        pair[1], pair[2])
                  IN  RedistributeInt([t EXCEPT !.buckets[b].list_ = r.list_],
                                      Tail(items), shift)

\* lines 113-147 on the bucket with handle b, once dir_ has room to grow
SplitBucketInt(t, b, shift) ==
    LET bucket_depth == t.buckets[b].depth_
        grown == IF bucket_depth = t.global_depth_
                 THEN [t EXCEPT !.global_depth_ = @ + 1, !.dir_ = @ \o @]
                 ELSE t
        new_local_depth == bucket_depth + 1
        new_bucket == Len(grown.buckets) + 1
        items == grown.buckets[b].list_
        repointed ==
            [ grown EXCEPT
                !.num_buckets_ = @ + 1,
                !.dir_ = [ i \in 1..Len(grown.dir_) |->
                            IF /\ grown.dir_[i] = b
                               /\ SplitBitInt(i - 1, new_local_depth, shift)
                            THEN new_bucket ELSE grown.dir_[i] ],
                !.buckets = Append(
                    [ @ EXCEPT ![b] = [depth_ |-> new_local_depth, list_ |-> << >>] ],
                    [depth_ |-> new_local_depth, list_ |-> << >>] ) ]
    IN  RedistributeInt(repointed, items, shift)

\* Insert is called: std::scoped_lock<std::mutex> lock(latch_)
InsertBegin(key, value) ==
    /\ inserting.pc = "idle"
    /\ inserting.latch_ = "free"
    /\ Cardinality(DOMAIN ht_map \cup {key}) <= MaxInserts
    /\ inserting' = [inserting EXCEPT !.pc = "loop", !.key = key,
                                      !.value = value, !.latch_ = "Insert"]
    /\ UNCHANGED << ht, ht_map, ht_call >>

\* the head of the while loop (lines 104-111): find the target bucket and
\* try to insert; on success Insert returns and the lock is released
InsertTry ==
    /\ inserting.pc = "loop"
    /\ LET key_index == IndexOfInt(ht, inserting.key, inserting.shift)
       IN  IF key_index >= Len(ht.dir_)
           THEN /\ inserting' = [inserting EXCEPT !.pc = "crashed"]
                /\ UNCHANGED << ht, ht_map, ht_call >>
           ELSE LET b == ht.dir_[key_index + 1]
                    r == BucketInsert(ht.buckets[b].list_, ht.bucket_size_,
                                      inserting.key, inserting.value)
                IN  IF r.ok
                    THEN /\ ht' = [ht EXCEPT !.buckets[b].list_ = r.list_]
                         /\ ht_map' = [k \in DOMAIN ht_map \cup {inserting.key} |->
                                         IF k = inserting.key
                                         THEN inserting.value ELSE ht_map[k]]
                         /\ ht_call' = [op |-> "Insert", key |-> inserting.key,
                                        value |-> inserting.value, result |-> TRUE,
                                        present |-> inserting.key \in DOMAIN ht_map]
                         /\ inserting' = [inserting EXCEPT !.pc = "idle",
                                                           !.latch_ = "free"]
                    ELSE /\ inserting' = [inserting EXCEPT !.pc = "split"]
                         /\ UNCHANGED << ht, ht_map, ht_call >>

\* the rest of the loop body (lines 113-147): split the full target bucket.
\* A directory of more than 2^MaxDirBits entries does not fit in memory:
\* push_back throws std::bad_alloc after global_depth_++, and the exception
\* leaves Insert, releasing the lock.
InsertSplit ==
    /\ inserting.pc = "split"
    /\ LET key_index == IndexOfInt(ht, inserting.key, inserting.shift)
           b == ht.dir_[key_index + 1]
       IN  IF /\ ht.buckets[b].depth_ = ht.global_depth_
              /\ 2 * Len(ht.dir_) > Pow2(MaxDirBits)
           THEN /\ ht' = [ht EXCEPT !.global_depth_ = @ + 1]
                /\ inserting' = [inserting EXCEPT !.pc = "threw",
                                                  !.latch_ = "free"]
           ELSE LET r == SplitBucketInt(ht, b, inserting.shift)
                IN  /\ ht' = r.table
                    /\ inserting' = [inserting EXCEPT
                                       !.pc = IF r.ok THEN "loop" ELSE "crashed"]
    /\ UNCHANGED << ht_map, ht_call >>

(***************************************************************************)
(*                             LRUKReplacer                                *)
(*                                                                         *)
(* access_history_ is a function whose DOMAIN is the set of keys of the    *)
(* unordered_map; evictable_frames_ is the unordered_set.                  *)
(***************************************************************************)
\* LRUKReplacer(num_frames, k)
NewReplacer(num_frames, k) ==
    [ replacer_size_     |-> num_frames,
      k_                 |-> k,
      current_timestamp_ |-> 0,
      curr_size_         |-> 0,
      access_history_    |-> << >>,
      evictable_frames_  |-> {} ]

\* static_cast<size_t>(frame_id) >= replacer_size_ : a negative frame id
\* converts to a value above every replacer size
OutOfRange(r, frame_id) == frame_id < 0 \/ frame_id >= r.replacer_size_

RecordAccessOnlyCounts(r, frame_id) ==
    IF OutOfRange(r, frame_id)
    THEN r
    ELSE [r EXCEPT !.current_timestamp_ = @ + 1]

\* LRUKReplacer::RecordAccess
RecordAccess(r, frame_id) ==
    IF OutOfRange(r, frame_id)
    THEN r
    ELSE [ r EXCEPT
             !.access_history_ =
                 IF frame_id \notin DOMAIN @
                 THEN [f \in DOMAIN @ \cup {frame_id} |->
                          IF f = frame_id THEN << r.current_timestamp_ >> ELSE @[f]]
                 ELSE [@ EXCEPT ![frame_id] = Append(@, r.current_timestamp_)],
             !.current_timestamp_ = @ + 1 ]

SetEvictableCountsAgain(r, frame_id, set_evictable) ==
    IF OutOfRange(r, frame_id)
    THEN r
    ELSE IF set_evictable
         THEN [r EXCEPT !.curr_size_ = @ + 1,
                        !.evictable_frames_ = @ \cup {frame_id}]
         ELSE [r EXCEPT !.curr_size_ = @ - 1,
                        !.evictable_frames_ = @ \ {frame_id}]

\* LRUKReplacer::SetEvictable
SetEvictable(r, frame_id, set_evictable) ==
    IF OutOfRange(r, frame_id)
    THEN r
    ELSE IF set_evictable
         THEN IF frame_id \notin r.evictable_frames_
              THEN [r EXCEPT !.curr_size_ = @ + 1,
                             !.evictable_frames_ = @ \cup {frame_id}]
              ELSE r
         ELSE IF frame_id \in r.evictable_frames_
              THEN [r EXCEPT !.curr_size_ = @ - 1,
                             !.evictable_frames_ = @ \ {frame_id}]
              ELSE r

\* access_history_.erase(frame_id)
EraseHistory(h, frame_id) == [f \in DOMAIN h \ {frame_id} |-> h[f]]

LRURemoveKeepsHistory(r, frame_id) ==
    IF frame_id \notin r.evictable_frames_
    THEN r
    ELSE [r EXCEPT !.evictable_frames_ = @ \ {frame_id},
                   !.curr_size_ = @ - 1]

\* LRUKReplacer::Remove
LRURemove(r, frame_id) ==
    IF frame_id \notin r.evictable_frames_
    THEN r
    ELSE [r EXCEPT !.evictable_frames_ = @ \ {frame_id},
                   !.access_history_ = EraseHistory(@, frame_id),
                   !.curr_size_ = @ - 1]

\* The orders in which a range-for may visit the unordered_set S
Orders(S) == { o \in [1..Cardinality(S) -> S] :
                 \A i, j \in 1..Cardinality(S) : i # j => o[i] # o[j] }

\* What front() may read from a deque that holds nothing
GarbageValues == {0, 1, SIZE_MAX}

\* The evictable frames whose history holds no timestamp when Evict reads it
NoHistory(r) == { f \in r.evictable_frames_ :
                    f \notin DOMAIN r.access_history_ \/ r.access_history_[f] = << >> }

Garbage(r) == [NoHistory(r) -> GarbageValues]

\* history.size() >= k_ ? current_timestamp_ - history[history.size() - k_] : max
Distance(r, history) ==
    IF Len(history) >= r.k_
    THEN r.current_timestamp_ - history[Len(history) - r.k_ + 1]
    ELSE SIZE_MAX

\* history.front(); on an empty deque it reads whatever the storage holds
Front(history, frame, garbage) ==
    IF Len(history) > 0 THEN history[1] ELSE garbage[frame]

TakesVictimOnlyFinite(distance, front, s) ==
    /\ distance < SIZE_MAX
    /\ \/ distance > s.max_distance
       \/ distance = s.max_distance /\ front < s.victim_timestamp

\* the condition of line 50
TakesVictim(distance, front, s) ==
    \/ distance > s.max_distance
    \/ distance = s.max_distance /\ front < s.victim_timestamp

\* the loop of lines 33-55 over the frames of `order`, from scan state s
RECURSIVE EvictScan(_, _, _, _)
EvictScan(r, order, garbage, s) ==
    IF order = << >>
    THEN s
    ELSE LET frame == Head(order)
             \* access_history_[frame] inserts an empty deque for a missing key
             hist == IF frame \in DOMAIN s.access_history_
                     THEN s.access_history_
                     ELSE [f \in DOMAIN s.access_history_ \cup {frame} |->
                             IF f = frame THEN << >> ELSE s.access_history_[f]]
             history  == hist[frame]
             distance == Distance(r, history)
             front    == Front(history, frame, garbage)
         IN  EvictScan(r, Tail(order), garbage,
                 IF TakesVictim(distance, front, s)
                 THEN [ max_distance     |-> distance,
                        victim           |-> frame,
                        victim_timestamp |-> front,
                        access_history_  |-> hist ]
                 ELSE [s EXCEPT !.access_history_ = hist])

EvictForgetsCount(r, order, garbage) ==
    LET s == EvictScan(r, order, garbage,
                 [ max_distance     |-> 0,
                   victim           |-> INVALID_FRAME_ID,
                   victim_timestamp |-> SIZE_MAX,
                   access_history_  |-> r.access_history_ ])
        scanned == [r EXCEPT !.access_history_ = s.access_history_]
    IN  IF s.victim # INVALID_FRAME_ID
        THEN [ ok |-> TRUE, frame_id |-> s.victim,
               replacer |-> [ scanned EXCEPT
                                !.evictable_frames_ = @ \ {s.victim},
                                !.access_history_ = EraseHistory(@, s.victim) ] ]
        ELSE [ ok |-> FALSE, frame_id |-> INVALID_FRAME_ID, replacer |-> scanned ]

\* LRUKReplacer::Evict, visiting the evictable set in `order`
Evict(r, order, garbage) ==
    LET s == EvictScan(r, order, garbage,
                 [ max_distance     |-> 0,
                   victim           |-> INVALID_FRAME_ID,
                   victim_timestamp |-> SIZE_MAX,
                   access_history_  |-> r.access_history_ ])
        scanned == [r EXCEPT !.access_history_ = s.access_history_]
    IN  IF s.victim # INVALID_FRAME_ID
        THEN [ ok |-> TRUE, frame_id |-> s.victim,
               replacer |-> [ scanned EXCEPT
                                !.evictable_frames_ = @ \ {s.victim},
                                !.access_history_ = EraseHistory(@, s.victim),
                                !.curr_size_ = @ - 1 ] ]
        ELSE [ ok |-> FALSE, frame_id |-> INVALID_FRAME_ID, replacer |-> scanned ]

\* LRUKReplacer::Size
Size(r) == Cardinality(r.evictable_frames_)

(***************************************************************************)
(* SpecLRU: a replacer driven by its four mutators.  Frame ids range over  *)
(* -1 .. NumFrames, so both out-of-range sides are exercised.              *)
(***************************************************************************)
FrameArgs == -1..NumFrames

NoLRUCall == [op |-> "none", frame |-> INVALID_FRAME_ID, flag |-> FALSE,
              ok |-> FALSE]

LRURecordAccessCall(frame) ==
    /\ lru.current_timestamp_ < MaxTimestamp
    /\ lru' = RecordAccess(lru, frame)
    /\ lru_call' = [op |-> "RecordAccess", frame |-> frame, flag |-> FALSE,
                    ok |-> TRUE]

LRUSetEvictableCall(frame, flag) ==
    /\ lru' = SetEvictable(lru, frame, flag)
    /\ lru_call' = [op |-> "SetEvictable", frame |-> frame, flag |-> flag,
                    ok |-> TRUE]

LRURemoveCall(frame) ==
    /\ lru' = LRURemove(lru, frame)
    /\ lru_call' = [op |-> "Remove", frame |-> frame, flag |-> FALSE,
                    ok |-> TRUE]

LRUEvictCall ==
    \E order \in Orders(lru.evictable_frames_), garbage \in Garbage(lru) :
        LET e == Evict(lru, order, garbage)
        IN  /\ lru' = e.replacer
            /\ lru_call' = [op |-> "Evict", frame |-> e.frame_id, flag |-> FALSE,
                            ok |-> e.ok]

(***************************************************************************)
(* SpecCapped: the replacer next to a replacer that caps every history at  *)
(* its k_ most recent timestamps and is otherwise the same code.  Both     *)
(* receive the same calls.  Each Evict visits its own unordered_set in an  *)
(* order of its own and reads its own storage where a history is empty.    *)
(*   lru_k.replacer  the capped replacer                                   *)
(*   lru_k.call      its last call and what it returned                    *)
(***************************************************************************)
CappedIdle == [replacer |-> NewReplacer(1, 1), call |-> NoLRUCall]

\* the frame ids the two replacers are called with
CappedFrames == 0..(NumFrames - 1)

\* the last k entries of history h
LastK(h, k) == IF Len(h) <= k THEN h ELSE SubSeq(h, Len(h) - k + 1, Len(h))

\* RecordAccess of the capped replacer: as LRUKReplacer::RecordAccess, then
\* the oldest timestamp is dropped when the history holds more than k_
RecordAccessCapped(r, frame_id) ==
    LET recorded == RecordAccess(r, frame_id)
    IN  IF OutOfRange(r, frame_id)
        THEN recorded
        ELSE [recorded EXCEPT !.access_history_[frame_id] = LastK(@, r.k_)]

CappedRecordAccessCall(frame) ==
    /\ LRURecordAccessCall(frame)
    /\ lru_k' = [replacer |-> RecordAccessCapped(lru_k.replacer, frame),
                 call |-> lru_call']

CappedSetEvictableCall(frame, flag) ==
    /\ LRUSetEvictableCall(frame, flag)
    /\ lru_k' = [replacer |-> SetEvictable(lru_k.replacer, frame, flag),
                 call |-> lru_call']

CappedRemoveCall(frame) ==
    /\ LRURemoveCall(frame)
    /\ lru_k' = [replacer |-> LRURemove(lru_k.replacer, frame),
                 call |-> lru_call']

\* what Evict on r may return, over every visiting order and every value
\* read from an empty history
EvictOutcomes(r) ==
    { Evict(r, order, garbage) :
        order \in Orders(r.evictable_frames_), garbage \in Garbage(r) }

CappedEvictCall ==
    \E e \in EvictOutcomes(lru_k.replacer) :
        /\ lru_k' = [replacer |-> e.replacer,
                     call |-> [op |-> "Evict", frame |-> e.frame_id,
                               flag |-> FALSE, ok |-> e.ok]]
        /\ LRUEvictCall

(***************************************************************************)
(* The threads of TEST(LRUKReplacerTest, ConcurrentAccess), with the       *)
(* test's 100 frames scaled to ThreadFrames: t1 and t2 run                 *)
(* SetEvictable(i, true) over the lower and the upper half of the frames,  *)
(* t3 runs SetEvictable(i, false) over the middle half.  SetEvictable      *)
(* holds the replacer's mutex for its whole body, so the threads           *)
(* interleave call by call.                                                *)
(***************************************************************************)
ThreadNames == {"t1", "t2", "t3"}

\* std::thread t1(set_evictable, 0, 50), t2(set_evictable, 50, 100),
\* t3(remove_evictable, 25, 75)
ThreadStart(t) ==
    CASE t = "t1" -> 0
      [] t = "t2" -> ThreadFrames \div 2
      [] t = "t3" -> ThreadFrames \div 4

ThreadEnd(t) ==
    CASE t = "t1" -> ThreadFrames \div 2
      [] t = "t2" -> ThreadFrames
      [] t = "t3" -> (3 * ThreadFrames) \div 4

\* set_evictable passes true, remove_evictable passes false
ThreadFlag(t) == t # "t3"

\* one turn of the thread's loop: for (int i = start; i < end; ++i)
ThreadCall(t) ==
    /\ threads[t] < ThreadEnd(t)
    /\ LRUSetEvictableCall(threads[t], ThreadFlag(t))
    /\ threads' = [threads EXCEPT ![t] = @ + 1]

\* t1.join(); t2.join(); t3.join() have returned
ThreadsJoined == \A t \in ThreadNames : threads[t] = ThreadEnd(t)

(***************************************************************************)
(*                       BufferPoolManagerInstance                         *)
(*                                                                         *)
(* A call's trace lists, in program order, the disk manager calls it made  *)
(* and the changes of a frame's resident id:                               *)
(*   <<"WritePage", p>>, <<"ReadPage", p>>, <<"DeallocatePage", p>>,       *)
(*   <<"SetPageId", frame, p>>.                                            *)
(* Page payloads are not modelled.                                         *)
(***************************************************************************)
Frames == 0..(PoolSize - 1)

\* The page ids a caller can hold: the sentinel and every id AllocatePage
\* has issued so far.
PageArgs == {INVALID_PAGE_ID} \cup 0..(next_page_id_ - 1)

\* every page id the bounded model can issue, and the sentinel
PageIds == {INVALID_PAGE_ID} \cup 0..(MaxAccess - 1)

NoBpmCall ==
    [ op |-> "none", page_id |-> INVALID_PAGE_ID, is_dirty |-> FALSE,
      result |-> FALSE, source |-> "none", frame |-> INVALID_FRAME_ID,
      old_page_id |-> INVALID_PAGE_ID, old_pin_count |-> 0,
      old_is_dirty |-> FALSE, trace |-> << >> ]

\* Page(): no resident page, pin count 0, clean
NewPages == [f \in Frames |-> [page_id_ |-> INVALID_PAGE_ID,
                               pin_count_ |-> 0, is_dirty_ |-> FALSE]]

\* lines 32-34: every frame is in the free list, frame 0 at the front
NewFreeList == [i \in 1..PoolSize |-> i - 1]

\* BufferPoolManagerInstance(pool_size, disk_manager, replacer_k)
\* if (page.IsDirty()) disk_manager_->WritePage(page.GetPageId(), ...)
WriteBackIfDirty(page) ==
    IF page.is_dirty_ THEN << << "WritePage", page.page_id_ >> >> ELSE << >>

\* A victim whose contents are dropped without being written.
VictimDropped(page) == << >>

\* the victim's write-back of NewPgImp (lines 83-85) and FetchPgImp (154-156)
WriteBackVictim(page) == WriteBackIfDirty(page)

PinnedToo(r, order, garbage) ==
    Evict([r EXCEPT !.evictable_frames_ = DOMAIN r.access_history_],
          order, garbage)

\* replacer_->Evict(&new_frame_id) as the manager calls it
EvictVictim(r, order, garbage) == Evict(r, order, garbage)

\* what a call that takes over frame `frame` records about the old resident
Taken(op, page_id, source, frame, trace) ==
    [ NoBpmCall EXCEPT
        !.op = op, !.page_id = page_id, !.result = TRUE, !.source = source,
        !.frame = frame,
        !.old_page_id = pages_[frame].page_id_,
        !.old_pin_count = pages_[frame].pin_count_,
        !.old_is_dirty = pages_[frame].is_dirty_,
        !.trace = trace ]

\* lines 59-74 and 86-101: install a freshly allocated page in new_frame_id
NewPgInstall(new_frame_id, source, rep, written) ==
    LET page    == pages_[new_frame_id]
        removed == HTRemove(page_table_, page.page_id_).table
        new_id  == next_page_id_
    IN  /\ next_page_id_' = next_page_id_ + 1
        /\ pages_' = [pages_ EXCEPT ![new_frame_id] =
                         [page_id_ |-> new_id, pin_count_ |-> 1, is_dirty_ |-> FALSE]]
        /\ replacer_' = RecordAccess(SetEvictable(rep, new_frame_id, FALSE),
                                     new_frame_id)
        /\ page_table_' = HTInsert(removed, new_id, new_frame_id)
        /\ bpm_call' = Taken("NewPage", new_id, source, new_frame_id,
                             written \o << << "SetPageId", new_frame_id, new_id >> >>)

\* BufferPoolManagerInstance::NewPgImp
NewPgImp ==
    /\ replacer_.current_timestamp_ < MaxAccess
    /\ IF free_list_ # << >>
       THEN /\ free_list_' = SubSeq(free_list_, 1, Len(free_list_) - 1)
            /\ NewPgInstall(free_list_[Len(free_list_)], "free", replacer_, << >>)
       ELSE \E order \in Orders(replacer_.evictable_frames_),
               garbage \in Garbage(replacer_) :
              LET e == EvictVictim(replacer_, order, garbage)
              IN  IF e.ok
                  THEN /\ NewPgInstall(e.frame_id, "evict", e.replacer,
                                       WriteBackVictim(pages_[e.frame_id]))
                       /\ UNCHANGED free_list_
                  ELSE /\ replacer_' = e.replacer
                       /\ bpm_call' = [NoBpmCall EXCEPT !.op = "NewPage"]
                       /\ UNCHANGED << pages_, free_list_, page_table_,
                                       next_page_id_ >>

\* lines 128-146 and 153-171: read page_id from disk into new_frame_id
FetchPgInstall(page_id, new_frame_id, source, rep, written) ==
    LET page    == pages_[new_frame_id]
        removed == HTRemove(page_table_, page.page_id_).table
    IN  /\ pages_' = [pages_ EXCEPT ![new_frame_id] =
                         [page_id_ |-> page_id, pin_count_ |-> 1, is_dirty_ |-> FALSE]]
        /\ page_table_' = HTInsert(removed, page_id, new_frame_id)
        /\ replacer_' = RecordAccess(SetEvictable(rep, new_frame_id, FALSE),
                                     new_frame_id)
        /\ bpm_call' = Taken("FetchPage", page_id, source, new_frame_id,
                             written \o << << "ReadPage", page_id >>,
                                           << "SetPageId", new_frame_id, page_id >> >>)
        /\ UNCHANGED next_page_id_

\* BufferPoolManagerInstance::FetchPgImp
FetchPgImp(page_id) ==
    /\ replacer_.current_timestamp_ < MaxAccess
    /\ LET found == HTFind(page_table_, page_id)
       IN  IF found.found
           THEN LET frame_id == found.value
                IN  /\ replacer_' = RecordAccess(
                                        SetEvictable(replacer_, frame_id, FALSE),
                                        frame_id)
                    /\ pages_' = [pages_ EXCEPT ![frame_id].pin_count_ = @ + 1]
                    /\ bpm_call' = [Taken("FetchPage", page_id, "hit", frame_id, << >>)
                                      EXCEPT !.frame = frame_id]
                    /\ UNCHANGED << free_list_, page_table_, next_page_id_ >>
           ELSE IF free_list_ # << >>
           THEN /\ free_list_' = SubSeq(free_list_, 1, Len(free_list_) - 1)
                /\ FetchPgInstall(page_id, free_list_[Len(free_list_)], "free",
                                  replacer_,
                                  WriteBackIfDirty(pages_[free_list_[Len(free_list_)]]))
           ELSE \E order \in Orders(replacer_.evictable_frames_),
                   garbage \in Garbage(replacer_) :
                  LET e == EvictVictim(replacer_, order, garbage)
                  IN  IF e.ok
                      THEN /\ FetchPgInstall(page_id, e.frame_id, "evict", e.replacer,
                                             WriteBackVictim(pages_[e.frame_id]))
                           /\ UNCHANGED free_list_
                      ELSE /\ replacer_' = e.replacer
                           /\ bpm_call' = [NoBpmCall EXCEPT !.op = "FetchPage",
                                                            !.page_id = page_id]
                           /\ UNCHANGED << pages_, free_list_, page_table_,
                                           next_page_id_ >>

UnpinRefusedBelowZero(pin_count) == pin_count < 0

\* page.GetPinCount() <= 0 (line 185)
UnpinRefused(pin_count) == pin_count <= 0

UnpinMarksAlways(pin_count) == TRUE

\* page.GetPinCount() == 0 after the decrement (line 190)
UnpinMarksEvictable(pin_count) == pin_count = 0

\* BufferPoolManagerInstance::UnpinPgImp
UnpinPgImp(page_id, is_dirty) ==
    LET found == HTFind(page_table_, page_id)
        frame_id == found.value
        call == [NoBpmCall EXCEPT !.op = "UnpinPage", !.page_id = page_id,
                                  !.is_dirty = is_dirty]
    IN  IF ~found.found
        THEN /\ bpm_call' = call
             /\ UNCHANGED << pages_, free_list_, page_table_, replacer_,
                             next_page_id_ >>
        ELSE IF UnpinRefused(pages_[frame_id].pin_count_)
        THEN /\ bpm_call' = [call EXCEPT !.frame = frame_id,
                                         !.old_page_id = page_id]
             /\ UNCHANGED << pages_, free_list_, page_table_, replacer_,
                             next_page_id_ >>
        ELSE /\ pages_' = [pages_ EXCEPT
                             ![frame_id].pin_count_ = @ - 1,
                             ![frame_id].is_dirty_ = @ \/ is_dirty]
             /\ replacer_' = IF UnpinMarksEvictable(pages_[frame_id].pin_count_ - 1)
                             THEN SetEvictable(replacer_, frame_id, TRUE)
                             ELSE replacer_
             /\ bpm_call' = [call EXCEPT !.frame = frame_id, !.result = TRUE,
                                         !.old_page_id = page_id,
                                         !.old_pin_count = pages_[frame_id].pin_count_,
                                         !.old_is_dirty = pages_[frame_id].is_dirty_]
             /\ UNCHANGED << free_list_, page_table_, next_page_id_ >>

\* BufferPoolManagerInstance::FlushPgImp
FlushPgImp(page_id) ==
    LET found == HTFind(page_table_, page_id)
        frame_id == found.value
        call == [NoBpmCall EXCEPT !.op = "FlushPage", !.page_id = page_id]
    IN  IF page_id = INVALID_PAGE_ID \/ ~found.found
        THEN /\ bpm_call' = call
             /\ UNCHANGED << pages_, free_list_, page_table_, replacer_,
                             next_page_id_ >>
        ELSE /\ pages_' = [pages_ EXCEPT ![frame_id].is_dirty_ = FALSE]
             /\ bpm_call' = [call EXCEPT !.result = TRUE, !.frame = frame_id,
                                         !.old_page_id = page_id,
                                         !.old_is_dirty = pages_[frame_id].is_dirty_,
                                         !.trace = << << "WritePage", page_id >> >>]
             /\ UNCHANGED << free_list_, page_table_, replacer_, next_page_id_ >>

\* the write-back of DeletePgImp: lines 239-242 are commented out
WriteBackDeleted(page) == << >>

\* BufferPoolManagerInstance::DeletePgImp
DeletePgImp(page_id) ==
    LET found == HTFind(page_table_, page_id)
        frame_id == found.value
        call == [NoBpmCall EXCEPT !.op = "DeletePage", !.page_id = page_id]
    IN  IF ~found.found
        THEN /\ bpm_call' = [call EXCEPT !.result = TRUE]
             /\ UNCHANGED << pages_, free_list_, page_table_, replacer_,
                             next_page_id_ >>
        ELSE IF pages_[frame_id].pin_count_ > 0
        THEN /\ bpm_call' = [call EXCEPT !.frame = frame_id,
                                         !.old_pin_count = pages_[frame_id].pin_count_]
             /\ UNCHANGED << pages_, free_list_, page_table_, replacer_,
                             next_page_id_ >>
        ELSE /\ page_table_' = HTRemove(page_table_, page_id).table
             /\ replacer_' = LRURemove(replacer_, frame_id)
             /\ free_list_' = Append(free_list_, frame_id)
             /\ pages_' = [pages_ EXCEPT ![frame_id] =
                              [page_id_ |-> INVALID_PAGE_ID, pin_count_ |-> 0,
                               is_dirty_ |-> FALSE]]
             /\ bpm_call' = Taken("DeletePage", page_id, "delete", frame_id,
                                  WriteBackDeleted(pages_[frame_id]) \o
                                  << << "SetPageId", frame_id, INVALID_PAGE_ID >>,
                                     << "DeallocatePage", page_id >> >>)
             /\ UNCHANGED next_page_id_

(***************************************************************************)
(* FlushAllPgsImp, in steps.  It takes latch_ with a lock_guard and then   *)
(* calls FlushPgImp for every frame; the first statement of FlushPgImp is  *)
(* a lock_guard on the same std::mutex.  Locking a std::mutex the calling  *)
(* thread already owns is undefined behaviour: the thread waits for itself *)
(* for ever (pthread's default mutex), or lock() throws std::system_error  *)
(* (resource_deadlock_would_occur), which leaves FlushAllPgsImp through    *)
(* its own lock_guard's destructor.                                        *)
(*   flush_all.pc  "idle", "loop", "blocked", "threw", "returned"          *)
(*   flush_all.i   the loop variable i                                     *)
(***************************************************************************)
FlushAllIdle == [pc |-> "idle", i |-> 0]

\* what lock() on a std::mutex the thread already owns may do
RelockOutcomes == {"blocked", "threw"}

\* line 218: std::lock_guard<std::mutex> lock(latch_)
FlushAllLock ==
    /\ flush_all.pc = "idle"
    /\ latch_ = "free"
    /\ latch_' = "FlushAllPages"
    /\ flush_all' = [pc |-> "loop", i |-> 0]
    /\ bpm_call' = [NoBpmCall EXCEPT !.op = "FlushAllPages"]
    /\ UNCHANGED << pages_, free_list_, page_table_, replacer_, next_page_id_ >>

\* lines 219-223: one turn of the loop, up to the lock_guard of FlushPgImp
\* (line 200); past the last frame the call returns and unlocks
FlushAllLoop ==
    /\ flush_all.pc = "loop"
    /\ IF flush_all.i < PoolSize
       THEN \E outcome \in RelockOutcomes :
              /\ flush_all' = [flush_all EXCEPT !.pc = outcome]
              /\ latch_' = IF outcome = "threw" THEN "free" ELSE latch_
       ELSE /\ flush_all' = [flush_all EXCEPT !.pc = "returned"]
            /\ latch_' = "free"
    /\ UNCHANGED << pages_, free_list_, page_table_, replacer_, next_page_id_,
                    bpm_call >>

(***************************************************************************)
(* Observers of the manager's calls.  They read the call just made         *)
(* (bpm_call') and never influence the manager.                            *)
(*                                                                         *)
(* dirty_mon, per frame, for the page now resident in it:                  *)
(*   called     UnpinPage(p, true) was called while p was resident         *)
(*   unflushed  UnpinPage(p, true) returned true and no FlushPage(p) has   *)
(*              returned true since                                        *)
(*   old_called, old_unflushed   the two flags of the frame the last call  *)
(*              took over, as they were before it                          *)
(* unpin_mon, per page id p: where p is in the pattern                     *)
(*   successful FetchPage(p), UnpinPage(p, false), UnpinPage(p, _)         *)
(*   phase  "fetched" after the fetch, "unpinned" after the first unpin    *)
(*   left   the pin count the first unpin left (-1 if it returned false)   *)
(*   seen   phase and left of the page of the last UnpinPage, before it    *)
(***************************************************************************)
DirtyStart ==
    [ called |-> [f \in Frames |-> FALSE],
      unflushed |-> [f \in Frames |-> FALSE],
      old_called |-> FALSE, old_unflushed |-> FALSE ]

DirtyStep ==
    LET c == bpm_call'
        f == c.frame
    IN  dirty_mon' =
          IF c.source \in {"free", "evict", "delete"}
          THEN [ called |-> [dirty_mon.called EXCEPT ![f] = FALSE],
                 unflushed |-> [dirty_mon.unflushed EXCEPT ![f] = FALSE],
                 old_called |-> dirty_mon.called[f],
                 old_unflushed |-> dirty_mon.unflushed[f] ]
          ELSE IF c.op = "UnpinPage" /\ f # INVALID_FRAME_ID
          THEN [ called |-> [dirty_mon.called EXCEPT ![f] = @ \/ c.is_dirty],
                 unflushed |-> [dirty_mon.unflushed EXCEPT
                                  ![f] = @ \/ (c.is_dirty /\ c.result)],
                 old_called |-> FALSE, old_unflushed |-> FALSE ]
          ELSE IF c.op = "FlushPage" /\ c.result
          THEN [ dirty_mon EXCEPT !.unflushed[f] = FALSE,
                                  !.old_called = FALSE, !.old_unflushed = FALSE ]
          ELSE [ dirty_mon EXCEPT !.old_called = FALSE, !.old_unflushed = FALSE ]

NotSeen == [phase |-> "idle", left |-> 0]

UnpinStart ==
    [ phase |-> [p \in PageIds |-> "idle"],
      left  |-> [p \in PageIds |-> 0],
      seen  |-> NotSeen ]

UnpinStep ==
    LET c == bpm_call'
        p == c.page_id
    IN  unpin_mon' =
          IF c.op = "FetchPage" /\ c.result
          THEN [ phase |-> [unpin_mon.phase EXCEPT ![p] = "fetched"],
                 left  |-> [unpin_mon.left EXCEPT ![p] = 0],
                 seen  |-> NotSeen ]
          ELSE IF c.op = "UnpinPage"
          THEN IF unpin_mon.phase[p] = "fetched" /\ ~c.is_dirty
               THEN [ phase |-> [unpin_mon.phase EXCEPT ![p] = "unpinned"],
                      left  |-> [unpin_mon.left EXCEPT
                                   ![p] = IF c.result THEN c.old_pin_count - 1 ELSE -1],
                      seen  |-> [phase |-> unpin_mon.phase[p],
                                 left |-> unpin_mon.left[p]] ]
               ELSE [ phase |-> [unpin_mon.phase EXCEPT ![p] = "idle"],
                      left  |-> [unpin_mon.left EXCEPT ![p] = 0],
                      seen  |-> [phase |-> unpin_mon.phase[p],
                                 left |-> unpin_mon.left[p]] ]
          ELSE [unpin_mon EXCEPT !.seen = NotSeen]

(***************************************************************************)
(*                            Specifications                               *)
(*                                                                         *)
(* Each specification drives one object; the variables of the others keep  *)
(* the value Init gives them.                                              *)
(***************************************************************************)
otherVars == << flushVars, threadVars, cappedVars, insertVars >>

HTStep(A)  == A /\ UNCHANGED << lruVars, bpmVars, monVars, otherVars >>
LRUStep(A) == A /\ UNCHANGED << htVars, bpmVars, monVars, otherVars >>
Plain(A)   == A /\ UNCHANGED << htVars, lruVars, monVars, otherVars >>
Dirty(A)   == A /\ DirtyStep
                /\ UNCHANGED << htVars, lruVars, unpin_mon, otherVars >>
Unpins(A)  == A /\ UnpinStep
                /\ UNCHANGED << htVars, lruVars, dirty_mon, otherVars >>

\* ExtendibleHashTable<int, int>(bucket_size)
HTInit ==
    /\ \E bucket_size \in 1..MaxBucketSize : ht = NewHashTable(bucket_size)
    /\ ht_map = << >>
    /\ ht_call = NoHTCall
    /\ lru = NewReplacer(1, 1)
    /\ lru_call = NoLRUCall
    /\ pages_ = << >>
    /\ free_list_ = << >>
    /\ page_table_ = NewHashTable(1)
    /\ replacer_ = NewReplacer(1, 1)
    /\ next_page_id_ = 0
    /\ bpm_call = NoBpmCall
    /\ dirty_mon = << >>
    /\ unpin_mon = << >>
    /\ latch_ = "free"
    /\ flush_all = FlushAllIdle
    /\ threads = << >>
    /\ lru_k = CappedIdle
    /\ inserting = InsertIdle

HTNext ==
    \/ \E key \in HTKeys, value \in HTValues : HTStep(HTInsertCall(key, value))
    \/ \E key \in HTKeys : HTStep(HTRemoveCall(key))
    \/ \E key \in HTKeys : HTStep(HTFindCall(key))

SpecHT == HTInit /\ [][HTNext]_vars

\* ExtendibleHashTable<int, int>(2) of scenario S4
S4Init ==
    /\ ht = NewHashTable(2)
    /\ ht_map = << >>
    /\ ht_call = NoHTCall
    /\ lru = NewReplacer(1, 1)
    /\ lru_call = NoLRUCall
    /\ pages_ = << >>
    /\ free_list_ = << >>
    /\ page_table_ = NewHashTable(1)
    /\ replacer_ = NewReplacer(1, 1)
    /\ next_page_id_ = 0
    /\ bpm_call = NoBpmCall
    /\ dirty_mon = << >>
    /\ unpin_mon = << >>
    /\ latch_ = "free"
    /\ flush_all = FlushAllIdle
    /\ threads = << >>
    /\ lru_k = CappedIdle
    /\ inserting = InsertIdle

S4Next == \E key \in S4Keys : HTStep(S4InsertCall(key))

SpecS4 == S4Init /\ [][S4Next]_vars

\* LRUKReplacer(num_frames, k)
LRUInit ==
    /\ \E k \in 1..MaxK : lru = NewReplacer(NumFrames, k)
    /\ lru_call = NoLRUCall
    /\ ht = NewHashTable(1)
    /\ ht_map = << >>
    /\ ht_call = NoHTCall
    /\ pages_ = << >>
    /\ free_list_ = << >>
    /\ page_table_ = NewHashTable(1)
    /\ replacer_ = NewReplacer(1, 1)
    /\ next_page_id_ = 0
    /\ bpm_call = NoBpmCall
    /\ dirty_mon = << >>
    /\ unpin_mon = << >>
    /\ latch_ = "free"
    /\ flush_all = FlushAllIdle
    /\ threads = << >>
    /\ lru_k = CappedIdle
    /\ inserting = InsertIdle

LRUNext ==
    \/ \E frame \in FrameArgs : LRUStep(LRURecordAccessCall(frame))
    \/ \E frame \in FrameArgs, flag \in BOOLEAN :
          LRUStep(LRUSetEvictableCall(frame, flag))
    \/ \E frame \in FrameArgs : LRUStep(LRURemoveCall(frame))
    \/ LRUStep(LRUEvictCall)

SpecLRU == LRUInit /\ [][LRUNext]_vars

\* BufferPoolManagerInstance(pool_size, disk_manager, replacer_k), with the
\* observers started as dirty and unpin say
BPMInit(dirty, unpin) ==
    /\ pages_ = NewPages
    /\ free_list_ = NewFreeList
    /\ page_table_ = NewHashTable(PageTableBucketSize)
    /\ \E k \in 1..MaxK : replacer_ = NewReplacer(PoolSize, k)
    /\ next_page_id_ = 0
    /\ bpm_call = NoBpmCall
    /\ dirty_mon = dirty
    /\ unpin_mon = unpin
    /\ ht = NewHashTable(1)
    /\ ht_map = << >>
    /\ ht_call = NoHTCall
    /\ lru = NewReplacer(1, 1)
    /\ lru_call = NoLRUCall
    /\ latch_ = "free"
    /\ flush_all = FlushAllIdle
    /\ threads = << >>
    /\ lru_k = CappedIdle
    /\ inserting = InsertIdle

Init == BPMInit(<< >>, << >>)

Next ==
    \/ Plain(NewPgImp)
    \/ \E page_id \in PageArgs : Plain(FetchPgImp(page_id))
    \/ \E page_id \in PageArgs, is_dirty \in BOOLEAN :
          Plain(UnpinPgImp(page_id, is_dirty))
    \/ \E page_id \in PageArgs : Plain(FlushPgImp(page_id))
    \/ \E page_id \in PageArgs : Plain(DeletePgImp(page_id))

Spec == Init /\ [][Next]_vars

InitDirty == BPMInit(DirtyStart, << >>)

NextDirty ==
    \/ Dirty(NewPgImp)
    \/ \E page_id \in PageArgs : Dirty(FetchPgImp(page_id))
    \/ \E page_id \in PageArgs, is_dirty \in BOOLEAN :
          Dirty(UnpinPgImp(page_id, is_dirty))
    \/ \E page_id \in PageArgs : Dirty(FlushPgImp(page_id))
    \/ \E page_id \in PageArgs : Dirty(DeletePgImp(page_id))

SpecDirty == InitDirty /\ [][NextDirty]_vars

InitUnpin == BPMInit(<< >>, UnpinStart)

NextUnpin ==
    \/ Unpins(NewPgImp)
    \/ \E page_id \in PageArgs : Unpins(FetchPgImp(page_id))
    \/ \E page_id \in PageArgs, is_dirty \in BOOLEAN :
          Unpins(UnpinPgImp(page_id, is_dirty))
    \/ \E page_id \in PageArgs : Unpins(FlushPgImp(page_id))
    \/ \E page_id \in PageArgs : Unpins(DeletePgImp(page_id))

SpecUnpin == InitUnpin /\ [][NextUnpin]_vars

\* The manager with FlushAllPages running on a thread of its own.  Every
\* other operation starts with a lock_guard on latch_, so it runs only while
\* latch_ is free, and then to its end.
Latched(A) == /\ latch_ = "free"
              /\ replacer_.current_timestamp_ < MaxFlushAllAccess
              /\ A
              /\ UNCHANGED << htVars, lruVars, monVars, otherVars >>
FlushAllStep(A) == A /\ UNCHANGED << htVars, lruVars, monVars, threadVars,
                                     cappedVars, insertVars >>

NextFlushAll ==
    \/ Latched(NewPgImp)
    \/ \E page_id \in PageArgs : Latched(FetchPgImp(page_id))
    \/ \E page_id \in PageArgs, is_dirty \in BOOLEAN :
          Latched(UnpinPgImp(page_id, is_dirty))
    \/ \E page_id \in PageArgs : Latched(FlushPgImp(page_id))
    \/ \E page_id \in PageArgs : Latched(DeletePgImp(page_id))
    \/ FlushAllStep(FlushAllLock)
    \/ FlushAllStep(FlushAllLoop)

\* LRUKReplacer(num_frames, k) and the capped replacer built alike; the
\* calls go on for as long as the two have returned the same results
CappedStep(A) == /\ lru_k.call = lru_call
                 /\ A
                 /\ UNCHANGED << htVars, bpmVars, monVars, flushVars,
                                 threadVars, insertVars >>

CappedInit ==
    /\ \E k \in 1..MaxK :
          /\ lru = NewReplacer(NumFrames, k)
          /\ lru_k = [replacer |-> NewReplacer(NumFrames, k), call |-> NoLRUCall]
    /\ lru_call = NoLRUCall
    /\ ht = NewHashTable(1)
    /\ ht_map = << >>
    /\ ht_call = NoHTCall
    /\ pages_ = << >>
    /\ free_list_ = << >>
    /\ page_table_ = NewHashTable(1)
    /\ replacer_ = NewReplacer(1, 1)
    /\ next_page_id_ = 0
    /\ bpm_call = NoBpmCall
    /\ dirty_mon = << >>
    /\ unpin_mon = << >>
    /\ latch_ = "free"
    /\ flush_all = FlushAllIdle
    /\ threads = << >>
    /\ inserting = InsertIdle

CappedNext ==
    \/ \E frame \in CappedFrames : CappedStep(CappedRecordAccessCall(frame))
    \/ \E frame \in CappedFrames, flag \in BOOLEAN :
          CappedStep(CappedSetEvictableCall(frame, flag))
    \/ \E frame \in CappedFrames : CappedStep(CappedRemoveCall(frame))
    \/ CappedStep(CappedEvictCall)

SpecCapped == CappedInit /\ [][CappedNext]_vars

\* LRUKReplacer lru_replacer(100, 2) shared by the three threads
ThreadStep(A) == A /\ UNCHANGED << htVars, bpmVars, monVars, flushVars,
                                   cappedVars, insertVars >>

ThreadsInit ==
    /\ lru = NewReplacer(ThreadFrames, 2)
    /\ lru_call = NoLRUCall
    /\ threads = [t \in ThreadNames |-> ThreadStart(t)]
    /\ ht = NewHashTable(1)
    /\ ht_map = << >>
    /\ ht_call = NoHTCall
    /\ pages_ = << >>
    /\ free_list_ = << >>
    /\ page_table_ = NewHashTable(1)
    /\ replacer_ = NewReplacer(1, 1)
    /\ next_page_id_ = 0
    /\ bpm_call = NoBpmCall
    /\ dirty_mon = << >>
    /\ unpin_mon = << >>
    /\ latch_ = "free"
    /\ flush_all = FlushAllIdle
    /\ lru_k = CappedIdle
    /\ inserting = InsertIdle

ThreadsNext ==
    \/ ThreadStep(ThreadCall("t1"))
    \/ ThreadStep(ThreadCall("t2"))
    \/ ThreadStep(ThreadCall("t3"))

SpecThreads == ThreadsInit /\ [][ThreadsNext]_vars

\* ExtendibleHashTable<int,int> table(bucket_size) and a thread that calls
\* Insert; the thread is scheduled while it is inside Insert.
InsertStep(A) == A /\ UNCHANGED << lruVars, bpmVars, monVars, flushVars,
                                   threadVars, cappedVars >>

InsertInit ==
    /\ \E bucket_size \in 1..MaxBucketSize : ht = NewHashTable(bucket_size)
    /\ ht_map = << >>
    /\ ht_call = NoHTCall
    /\ \E shift \in ShiftOutcomes : inserting = [InsertIdle EXCEPT !.shift = shift]
    /\ lru = NewReplacer(1, 1)
    /\ lru_call = NoLRUCall
    /\ pages_ = << >>
    /\ free_list_ = << >>
    /\ page_table_ = NewHashTable(1)
    /\ replacer_ = NewReplacer(1, 1)
    /\ next_page_id_ = 0
    /\ bpm_call = NoBpmCall
    /\ dirty_mon = << >>
    /\ unpin_mon = << >>
    /\ latch_ = "free"
    /\ flush_all = FlushAllIdle
    /\ threads = << >>
    /\ lru_k = CappedIdle

InsertNext ==
    \/ \E key \in IntKeys : InsertStep(InsertBegin(key, 0))
    \/ InsertStep(InsertTry)
    \/ InsertStep(InsertSplit)

\* WF_vars(InsertStep(InsertSplit)), its ENABLED written as the guard of
\* InsertSplit: a thread that is about to split does split
InsertSplitFair ==
    \/ []<>(inserting.pc # "split")
    \/ []<><<InsertStep(InsertSplit)>>_vars

SpecInsert ==
    /\ InsertInit
    /\ [][InsertNext]_vars
    /\ WF_vars(InsertStep(InsertTry))
    /\ InsertSplitFair

\* A thread that is inside FlushAllPgsImp and can take a step is scheduled.
SpecFlushAll ==
    Init /\ [][NextFlushAll]_vars /\ WF_vars(FlushAllStep(FlushAllLoop))

(***************************************************************************)
(*                    Properties of the buffer pool manager                *)
(***************************************************************************)
FreeFrames == { free_list_[i] : i \in 1..Len(free_list_) }

\* the call took over a frame: installed a page in it or freed it
TookFrame == bpm_call.source \in {"free", "evict", "delete"}

\* position of the first event e in trace t, 0 when absent
FirstAt(t, e) ==
    IF \E i \in 1..Len(t) : t[i] = e
    THEN CHOOSE i \in 1..Len(t) : t[i] = e /\ \A j \in 1..(i-1) : t[j] # e
    ELSE 0

\* position of the frame's change of resident id in the call's trace
SetPageIdAt ==
    CHOOSE i \in 0..Len(bpm_call.trace) :
        IF \E j \in 1..Len(bpm_call.trace) : bpm_call.trace[j][1] = "SetPageId"
        THEN i > 0 /\ bpm_call.trace[i][1] = "SetPageId"
        ELSE i = 0

\* C1: whenever NewPage or FetchPage replaces the resident page of a frame,
\* or DeletePage frees a frame, the pin count of the page that was in the
\* frame was 0 immediately before.
C1_PinnedNeverReplaced == TookFrame => bpm_call.old_pin_count = 0

\* a page was evicted while the other frame held a pinned page
C1_Witness ==
    /\ bpm_call.source = "evict"
    /\ bpm_call.old_page_id # INVALID_PAGE_ID
    /\ \E f \in Frames \ {bpm_call.frame} : pages_[f].pin_count_ > 0

\* C2: page table and frames are mutually consistent: every page id in the
\* page table maps to a frame whose resident id is that page id, every frame
\* not in the free list has a page-table entry mapping its resident id to it,
\* and no page id is resident in two frames at once.
C2_TableFramesConsistent ==
    /\ \A p \in PageIds :
          HTFind(page_table_, p).found =>
              pages_[HTFind(page_table_, p).value].page_id_ = p
    /\ \A f \in Frames \ FreeFrames :
          HTFind(page_table_, pages_[f].page_id_) = [found |-> TRUE, value |-> f]
    /\ \A f, g \in Frames \ FreeFrames :
          f # g => pages_[f].page_id_ # pages_[g].page_id_

\* C3: the number of frames in the free list plus the number of entries in
\* the page table equals pool_size.
C3_FreePlusTableIsPoolSize ==
    Len(free_list_) + HTCount(page_table_, Len(page_table_.buckets)) = PoolSize

\* C4: for every operation that ends a page's residency in a frame (eviction
\* in NewPage, eviction in FetchPage, DeletePage), if the page's dirty flag
\* was set then WritePage for that page id is issued before the frame's
\* resident id changes.
C4_DirtyWrittenBeforeLeaving ==
    (TookFrame /\ bpm_call.old_page_id # INVALID_PAGE_ID /\ bpm_call.old_is_dirty) =>
        LET w == FirstAt(bpm_call.trace, << "WritePage", bpm_call.old_page_id >>)
        IN  w > 0 /\ w < SetPageIdAt

\* C5: a frame holding a resident page is in the replacer's evictable set
\* iff the page's pin count is 0; every frame tracked as evictable has pin
\* count 0 and every pin count is non-negative.
C5_EvictableIffUnpinned ==
    /\ \A f \in Frames \ FreeFrames :
          f \in replacer_.evictable_frames_ <=> pages_[f].pin_count_ = 0
    /\ \A f \in replacer_.evictable_frames_ : pages_[f].pin_count_ = 0
    /\ \A f \in Frames : pages_[f].pin_count_ >= 0

\* one frame holds a page pinned twice, the other an unpinned evictable page
C5_Witness ==
    /\ \E f \in Frames \ FreeFrames : pages_[f].pin_count_ = 2
    /\ \E f \in Frames \ FreeFrames :
          pages_[f].pin_count_ = 0 /\ f \in replacer_.evictable_frames_
    /\ bpm_call.op = "UnpinPage" /\ bpm_call.result

\* number of WritePage(p) events in trace t
RECURSIVE Writes(_, _)
Writes(t, p) ==
    IF t = << >> THEN 0
    ELSE (IF Head(t) = << "WritePage", p >> THEN 1 ELSE 0) + Writes(Tail(t), p)

\* C9 as stated (for the page ids AllocatePage issues): UnpinPage(p, false)
\* issued after a successful FetchPage(p) returns true, and the next
\* UnpinPage(p, _) issued without an intervening fetch of p returns false.
C9_UnpinTrueThenFalse ==
    (bpm_call.op = "UnpinPage" /\ bpm_call.page_id # INVALID_PAGE_ID) =>
        /\ (unpin_mon.seen.phase = "fetched" /\ ~bpm_call.is_dirty) => bpm_call.result
        /\ unpin_mon.seen.phase = "unpinned" => ~bpm_call.result

\* C9 as amended: for a valid page id p, UnpinPage(p, false) issued after a
\* successful FetchPage(p) returns true, and the next UnpinPage(p, _) without
\* an intervening fetch of p returns false exactly when that first unpin left
\* the pin count at 0 (it returns true while other pins remain).  For
\* p = INVALID_PAGE_ID, which FetchPage accepts, the first unpin returns true
\* exactly when p is still in the page table, and the next one returns false
\* whenever the first left the pin count at 0.
C9_UnpinFollowsPinCount ==
    bpm_call.op = "UnpinPage" =>
        /\ (unpin_mon.seen.phase = "fetched" /\ ~bpm_call.is_dirty) =>
              IF bpm_call.page_id # INVALID_PAGE_ID
              THEN bpm_call.result
              ELSE bpm_call.result <=> bpm_call.frame # INVALID_FRAME_ID
        /\ unpin_mon.seen.phase = "unpinned" =>
              /\ unpin_mon.seen.left <= 0 => ~bpm_call.result
              /\ (unpin_mon.seen.left > 0 /\ bpm_call.page_id # INVALID_PAGE_ID)
                    => bpm_call.result

\* the second unpin of a valid page in the pattern returned false: the
\* first had left pin count 0
C9_Witness ==
    /\ bpm_call.op = "UnpinPage" /\ ~bpm_call.result
    /\ bpm_call.page_id # INVALID_PAGE_ID
    /\ unpin_mon.seen = [phase |-> "unpinned", left |-> 0]

\* C10 as stated: if UnpinPage(p, true) has been called at least once while
\* p is resident, the subsequent eviction of p's frame by NewPage or
\* FetchPage issues WritePage(p) before the new page is installed.
C10_CalledDirtyThenWritten ==
    (bpm_call.source = "evict" /\ dirty_mon.old_called) =>
        LET w == FirstAt(bpm_call.trace, << "WritePage", bpm_call.old_page_id >>)
        IN  w > 0 /\ w < SetPageIdAt

\* C10 as amended: if UnpinPage(p, true) has returned true while p is
\* resident and no FlushPage(p) has returned true since, the subsequent
\* eviction of p's frame by NewPage or FetchPage issues exactly one
\* WritePage(p), before the new page is installed.
C10_UnflushedDirtyThenWritten ==
    (bpm_call.source = "evict" /\ dirty_mon.old_unflushed) =>
        LET w == FirstAt(bpm_call.trace, << "WritePage", bpm_call.old_page_id >>)
        IN  /\ w > 0 /\ w < SetPageIdAt
            /\ Writes(bpm_call.trace, bpm_call.old_page_id) = 1

\* NewPage evicted a valid page that UnpinPage(p, true) had dirtied
C10_Witness ==
    /\ bpm_call.op = "NewPage" /\ bpm_call.source = "evict"
    /\ dirty_mon.old_unflushed
    /\ bpm_call.old_page_id # INVALID_PAGE_ID

\* the non-free frames whose resident id is p
FramesOf(p) == { f \in Frames \ FreeFrames : pages_[f].page_id_ = p }

ManagerUnchanged ==
    UNCHANGED << pages_, free_list_, page_table_, replacer_, next_page_id_ >>

\* the documented outcome of a step that is the call DeletePage(p)
DeleteAsClaimed(p) ==
    IF FramesOf(p) = {}
    THEN bpm_call'.result /\ ManagerUnchanged
    ELSE IF \E f \in FramesOf(p) : pages_[f].pin_count_ > 0
    THEN ~bpm_call'.result /\ ManagerUnchanged
    ELSE /\ bpm_call'.result
         /\ ~HTFind(page_table_', p).found
         /\ \A f \in FramesOf(p) :
               /\ \E i \in 1..Len(free_list_') : free_list_'[i] = f
               /\ pages_'[f] = [page_id_ |-> INVALID_PAGE_ID, pin_count_ |-> 0,
                                is_dirty_ |-> FALSE]
               /\ f \notin replacer_'.evictable_frames_
               /\ f \notin DOMAIN replacer_'.access_history_

\* a page that is not resident comes back only through a FetchPage of it
\* that reads it from disk
ReadWhenNotResident ==
    /\ (bpm_call'.op = "FetchPage" /\ bpm_call'.result
           /\ FramesOf(bpm_call'.page_id) = {})
          => \E i \in 1..Len(bpm_call'.trace) :
                bpm_call'.trace[i] = << "ReadPage", bpm_call'.page_id >>
    /\ (bpm_call'.op = "NewPage" /\ bpm_call'.result)
          => bpm_call'.page_id \notin PageArgs
    /\ \A q \in PageArgs :
          (FramesOf(q) = {} /\ ~(bpm_call'.op \in {"FetchPage"} /\ bpm_call'.page_id = q))
             => \A f \in Frames : pages_'[f].page_id_ = q => q = INVALID_PAGE_ID

\* C15: DeletePage(p) returns false and changes nothing when p is resident
\* with pin count > 0; returns true and changes nothing when p is not
\* resident; when p is resident with pin count 0 it returns true, p has no
\* page-table entry, its frame is in the free list with resident id INVALID,
\* pin count 0 and dirty false and is not tracked by the replacer, and a
\* later FetchPage(p) issues ReadPage(p).
C15_DeletePage ==
    [][ /\ bpm_call'.op = "DeletePage" => DeleteAsClaimed(bpm_call'.page_id)
        /\ ReadWhenNotResident ]_vars

\* C15 for the page ids AllocatePage issues (DeletePage is never given
\* INVALID_PAGE_ID)
C15_DeleteValidPage ==
    [][ /\ (bpm_call'.op = "DeletePage" /\ bpm_call'.page_id # INVALID_PAGE_ID)
            => DeleteAsClaimed(bpm_call'.page_id)
        /\ ReadWhenNotResident ]_vars

\* no frame is free and none is evictable
Exhausted == free_list_ = << >> /\ replacer_.evictable_frames_ = {}

\* the step is NewPage, or FetchPage of a page the page table does not hold
AsksForFrame ==
    \/ bpm_call'.op = "NewPage"
    \/ bpm_call'.op = "FetchPage" /\ ~HTFind(page_table_, bpm_call'.page_id).found

\* C16: NewPage, and FetchPage of a non-resident page, return null if and
\* only if the free list is empty and the replacer has no evictable frame
\* (every frame then holds a pinned page); when null is returned no frame
\* metadata, page-table entry, free-list entry, replacer state or next page
\* id changes and no disk read or write is issued.
C16_NullIffExhausted ==
    [][ AsksForFrame =>
          /\ ~bpm_call'.result <=> Exhausted
          /\ ~bpm_call'.result =>
                /\ ManagerUnchanged
                /\ bpm_call'.trace = << >>
                /\ \A f \in Frames : pages_[f].pin_count_ > 0 ]_vars

\* FetchPage of a page that is not resident has just returned null with
\* two valid pages pinned
C16_Witness ==
    /\ bpm_call.op = "FetchPage" /\ ~bpm_call.result
    /\ bpm_call.page_id # INVALID_PAGE_ID
    /\ ~HTFind(page_table_, bpm_call.page_id).found
    /\ Exhausted
    /\ \A f \in Frames : pages_[f].pin_count_ > 0 /\ pages_[f].page_id_ # INVALID_PAGE_ID

\* C17 (manager): FetchPage, UnpinPage, FlushPage and DeletePage called
\* with INVALID_PAGE_ID return null / false and leave the pool unchanged: no
\* frame leaves the free list, nothing is evicted, the page table gets no
\* entry for INVALID_PAGE_ID and no disk call is made.
C17_InvalidPageIdRejected ==
    [][ ( /\ bpm_call'.op \in {"FetchPage", "UnpinPage", "FlushPage", "DeletePage"}
          /\ bpm_call'.page_id = INVALID_PAGE_ID )
        => /\ ~bpm_call'.result
           /\ ManagerUnchanged
           /\ bpm_call'.trace = << >>
           /\ ~HTFind(page_table_', INVALID_PAGE_ID).found ]_vars

\* the replacer holds nothing about frame f
Untracked(f) ==
    /\ f \notin DOMAIN replacer_.access_history_
    /\ f \notin replacer_.evictable_frames_

\* C18: a frame is in the free list if and only if its resident page id is
\* INVALID and the replacer tracks nothing for it (no access history, not
\* evictable); no frame index is in the free list twice.
C18_FreeIffInvalidUntracked ==
    /\ \A f \in Frames :
          f \in FreeFrames <=> (pages_[f].page_id_ = INVALID_PAGE_ID /\ Untracked(f))
    /\ \A i, j \in 1..Len(free_list_) : i # j => free_list_[i] # free_list_[j]
    /\ FreeFrames \subseteq Frames

\* DeletePage has freed the frame of a valid page and every frame is free
\* again, after at least two accesses were recorded
C18_Witness ==
    /\ bpm_call.source = "delete"
    /\ bpm_call.old_page_id # INVALID_PAGE_ID
    /\ Len(free_list_) = PoolSize
    /\ replacer_.current_timestamp_ >= 2

\* C11: FlushAllPages, called in any reachable state, runs to completion
\* (the calling thread returns and releases the pool mutex), and on return
\* every page resident in a non-free frame has been written and is clean.
C11_FlushAllCompletes ==
    (flush_all.pc = "loop") ~>
        ( /\ flush_all.pc = "returned"
          /\ latch_ = "free"
          /\ \A f \in Frames \ FreeFrames : ~pages_[f].is_dirty_ )

(***************************************************************************)
(*                       Properties of the replacer                        *)
(***************************************************************************)
HistoryOf(r, f) ==
    IF f \in DOMAIN r.access_history_ THEN r.access_history_[f] ELSE << >>

\* backward k-distance: +infinity with fewer than k recorded accesses
KDistance(r, f) ==
    LET h == HistoryOf(r, f)
    IN  IF Len(h) < r.k_ THEN SIZE_MAX
        ELSE r.current_timestamp_ - h[Len(h) - r.k_ + 1]

\* g is a strictly better victim than f
Beats(r, g, f) ==
    \/ KDistance(r, g) > KDistance(r, f)
    \/ /\ KDistance(r, g) = KDistance(r, f)
       /\ HistoryOf(r, g) # << >> /\ HistoryOf(r, f) # << >>
       /\ HistoryOf(r, g)[1] < HistoryOf(r, f)[1]

BestVictims(r) ==
    { f \in r.evictable_frames_ :
        \A g \in r.evictable_frames_ : ~Beats(r, g, f) }

\* the documented outcome of an Evict step from r to rr that returned call
EvictAsClaimed(r, rr, call) ==
    /\ call.ok
    /\ call.frame \in BestVictims(r)
    /\ \A order \in Orders(r.evictable_frames_), garbage \in Garbage(r) :
          Evict(r, order, garbage).frame_id = call.frame
    /\ rr.evictable_frames_ = r.evictable_frames_ \ {call.frame}
    /\ call.frame \notin DOMAIN rr.access_history_

\* C6: with a non-empty evictable set, Evict returns the evictable frame
\* with the largest backward k-distance, ties going to the frame whose
\* earliest recorded access is oldest; the result does not depend on the
\* iteration order of the evictable set; the victim's evictable mark and
\* access history are erased.
C6_EvictLargestKDistance ==
    [][ (lru_call'.op = "Evict" /\ lru.evictable_frames_ # {}) =>
            EvictAsClaimed(lru, lru', lru_call') ]_vars

\* C13: SetEvictable is idempotent: in every replacer state, for every frame
\* f and flag b, SetEvictable(f, b) called twice in a row leaves the same
\* state (evictable set, Size, counter, access histories, timestamp) as
\* SetEvictable(f, b) called once.
C13_SetEvictableIdempotent ==
    \A f \in FrameArgs, b \in BOOLEAN :
        LET once  == SetEvictable(lru, f, b)
            twice == SetEvictable(once, f, b)
        IN  twice = once /\ Size(twice) = Size(once)

\* SetEvictable(f, true) has just made an accessed frame evictable next to
\* another evictable frame, and a frame that is not evictable is tracked too
C13_Witness ==
    /\ lru_call.op = "SetEvictable" /\ lru_call.flag
    /\ lru_call.frame \in lru.evictable_frames_
    /\ lru_call.frame \in DOMAIN lru.access_history_
    /\ lru.curr_size_ = 2
    /\ DOMAIN lru.access_history_ \ lru.evictable_frames_ # {}

\* C17 (replacer): RecordAccess and SetEvictable with a frame id that is
\* not below num_frames leave the replacer, its timestamp counter included,
\* unchanged.
C17_OutOfRangeFrameIgnored ==
    [][ ( /\ lru_call'.op \in {"RecordAccess", "SetEvictable"}
          /\ (lru_call'.frame < 0 \/ lru_call'.frame >= lru.replacer_size_) )
        => lru' = lru ]_vars

\* C19: after any sequence of RecordAccess, SetEvictable, Evict and Remove,
\* Size() is the number of frames in the evictable set and curr_size_ equals
\* it; Evict returns false exactly when the evictable set is empty and then
\* changes nothing; Remove(f) of a frame that is not evictable changes
\* neither Size nor any access history.
C19_SizeCountsEvictable ==
    [][ /\ Size(lru') = Cardinality(lru'.evictable_frames_)
        /\ lru'.curr_size_ = Cardinality(lru'.evictable_frames_)
        /\ lru.curr_size_ = Size(lru)
        /\ lru_call'.op = "Evict" =>
              /\ ~lru_call'.ok <=> lru.evictable_frames_ = {}
              /\ ~lru_call'.ok => lru' = lru
        /\ (lru_call'.op = "Remove" /\ lru_call'.frame \notin lru.evictable_frames_) =>
              /\ Size(lru') = Size(lru)
              /\ lru'.access_history_ = lru.access_history_ ]_vars

\* Remove was called on a tracked frame that is not evictable, while
\* another frame is evictable
C19_Witness ==
    /\ lru_call.op = "Remove"
    /\ lru_call.frame \in DOMAIN lru.access_history_
    /\ lru_call.frame \notin lru.evictable_frames_
    /\ Size(lru) >= 1

\* C20: the replacer that keeps only the k most recent timestamps of each
\* frame returns, for every sequence of RecordAccess, SetEvictable, Remove
\* and Evict calls, the same Evict results (victim and ok flag) and the same
\* Size values as the replacer with the full histories.
C20_CappedSameResults ==
    [][ /\ Size(lru_k'.replacer) = Size(lru')
        /\ lru_call'.op = "Evict" =>
              /\ lru_k'.call.ok = lru_call'.ok
              /\ lru_k'.call.frame = lru_call'.frame ]_vars

\* the capped replacer c holds what the full replacer r holds, with every
\* history cut to its last k_ timestamps
CappedAgrees(r, c) ==
    /\ c.k_ = r.k_ /\ c.replacer_size_ = r.replacer_size_
    /\ c.current_timestamp_ = r.current_timestamp_
    /\ c.curr_size_ = r.curr_size_
    /\ c.evictable_frames_ = r.evictable_frames_
    /\ DOMAIN c.access_history_ = DOMAIN r.access_history_
    /\ \A f \in DOMAIN r.access_history_ :
          c.access_history_[f] = LastK(r.access_history_[f], r.k_)

\* C20 for call sequences in which every frame in the evictable set has a
\* recorded access whenever Evict is called: the two replacers return the
\* same results and keep agreeing, and some history is really cut.
C20_CappedSameWhenAccessed ==
    [][ ( /\ CappedAgrees(lru, lru_k.replacer)
          /\ lru_call'.op = "Evict" => NoHistory(lru) = {} )
        => /\ CappedAgrees(lru', lru_k'.replacer)
           /\ lru_k'.call = lru_call'
           /\ Size(lru_k'.replacer) = Size(lru') ]_vars

\* C12: when the three threads of the ConcurrentAccess test have finished,
\* Size() is half the number of frames: exactly the frames of the lowest and
\* of the highest quarter are evictable, whatever the interleaving was.
C12_HalfEvictableAfterJoin ==
    ThreadsJoined =>
        /\ Size(lru) = ThreadFrames \div 2
        /\ lru.evictable_frames_ =
              (0..(ThreadFrames \div 4 - 1)) \cup
              (((3 * ThreadFrames) \div 4)..(ThreadFrames - 1))

S4ThreeEvenKeys ==
    /\ Cardinality(DOMAIN ht_map) = 3
    /\ \A k \in DOMAIN ht_map : k % 2 = 0

\* the number of low hash bits on which all keys of the set agree
SharedLowBits(keys) ==
    CHOOSE j \in 0..MaxS4Key :
        /\ \A a, b \in keys : a % Pow2(j) = b % Pow2(j)
        /\ \E a, b \in keys : a % Pow2(j + 1) # b % Pow2(j + 1)

\* C14 as stated: from an empty table with bucket_size 2, after inserting
\* three distinct keys whose low hash bits are all 0, the global depth is 2
\* and the number of buckets is 2.
C14_S4DepthTwoBucketsTwo ==
    S4ThreeEvenKeys => ht.global_depth_ = 2 /\ ht.num_buckets_ = 2

\* C14 as amended: from an empty table with bucket_size 2, after inserting
\* three distinct keys whose low hash bit is 0 and which agree on exactly
\* their j lowest hash bits, the global depth is j + 1 and the number of
\* buckets is j + 2: depth 2 and 3 buckets when they agree on bit 0 only
\* (keys 0, 2, 4), depth 3 and 4 buckets for keys 0, 4, 8.
C14_S4DepthFollowsSharedBits ==
    S4ThreeEvenKeys =>
        LET j == SharedLowBits(DOMAIN ht_map)
        IN  /\ j >= 1
            /\ ht.global_depth_ = j + 1
            /\ ht.num_buckets_ = j + 2
            /\ Len(ht.buckets) = ht.num_buckets_

\* the third of three even keys agreeing on bit 0 only has been inserted
C14_Witness ==
    /\ S4ThreeEvenKeys
    /\ ht_call.op = "Insert"
    /\ SharedLowBits(DOMAIN ht_map) = 1
    /\ ht.global_depth_ = 2

InsertRunning == inserting.pc \in {"loop", "split"}

\* Insert(inserting.key) has returned
InsertReturned ==
    /\ inserting.pc = "idle"
    /\ inserting.latch_ = "free"
    /\ ht_call.op = "Insert" /\ ht_call.key = inserting.key
    /\ \E b \in 1..Len(ht.buckets) :
          BucketFind(ht.buckets[b].list_, inserting.key).found

\* the keys of every full bucket together with k do not all have the same
\* hash value
HashesDiffer(k) ==
    \A b \in 1..Len(ht.buckets) :
        Len(ht.buckets[b].list_) = ht.bucket_size_ =>
            Cardinality({ ToSizeT(ht.buckets[b].list_[i][1]) :
                            i \in 1..Len(ht.buckets[b].list_) }
                        \cup {ToSizeT(k)}) > 1

\* no key put in the table by an earlier call, other than k, has the low
\* IntBits - 1 bits of k
LowBitsDiffer(k) ==
    \A x \in DOMAIN ht_map :
        x # k => x % Pow2(IntBits - 1) # k % Pow2(IntBits - 1)

\* C21: whenever Insert(k) is running on a table in which the keys of the
\* full bucket together with k do not all have the same hash value, the
\* split-and-retry loop ends: Insert returns with k stored in the table and
\* the mutex released.
C21_InsertTerminates ==
    (InsertRunning /\ HashesDiffer(inserting.key)) ~> InsertReturned

\* Insert(k) does return with k stored when k differs from every other
\* stored key in a bit below the sign bit of the int mask.
C21_InsertTerminatesBelowSignBit ==
    (inserting.pc = "loop" /\ LowBitsDiffer(inserting.key)) ~> InsertReturned

\* Insert never leaves its loop by an exception or by an access outside dir_.
C21_InsertNeverFails == inserting.pc \notin {"threw", "crashed"}

\* Insert has returned after at least two splits of the target bucket
C21_Witness ==
    /\ inserting.pc = "idle"
    /\ ht_call.op = "Insert"
    /\ ht.global_depth_ >= 2
    /\ \E b \in 1..Len(ht.buckets) :
          BucketFind(ht.buckets[b].list_, ht_call.key).found

(***************************************************************************)
(*              Access histories of the frames the manager uses            *)
(***************************************************************************)
\* C22: in every reachable state of the buffer pool manager, every frame in
\* the replacer's evictable set and every frame holding a resident page has
\* at least one recorded access timestamp, so an Evict issued by NewPage or
\* FetchPage never reads the front of an empty access history.
C22_UsedFramesHaveHistory ==
    /\ NoHistory(replacer_) = {}
    /\ \A f \in Frames \ FreeFrames : HistoryOf(replacer_, f) # << >>
    /\ \A p \in PageIds :
          HTFind(page_table_, p).found
              => HistoryOf(replacer_, HTFind(page_table_, p).value) # << >>

\* NewPage or FetchPage has evicted a frame while another frame was
\* evictable too and tied with it at +infinity, so that Evict compared the
\* fronts of two histories
C22_Witness ==
    /\ bpm_call.op \in {"NewPage", "FetchPage"}
    /\ bpm_call.source = "evict"
    /\ replacer_.k_ = 2
    /\ \E g \in replacer_.evictable_frames_ :
          /\ g # bpm_call.frame
          /\ Len(HistoryOf(replacer_, g)) = 1

=============================================================================
